---- MODULE Spec2Model ----
(***************************************************************************)
(* car_logger: a service journal for one car (src/main.py).                *)
(*                                                                         *)
(* The state is the SQLite table "logs" together with what the last menu   *)
(* operation of main() produced: the mapping check_necessary_service       *)
(* returned, the panel or table display_service_status printed, the        *)
(* identifier create_record returned.  One action per menu operation.      *)
(*                                                                         *)
(* Strings of the source are Cyrillic; they are transliterated here, one   *)
(* distinct ASCII string per distinct source string.                       *)
(***************************************************************************)
EXTENDS Integers, Sequences, FiniteSets

VARIABLES
    logs,             \* rows of table logs, in insertion (rowid) order
    sqlite_sequence,  \* AUTOINCREMENT bookkeeping: largest id ever assigned
    pc,               \* "menu": main() is in its loop; "crashed": an exception left main()
    op,               \* the menu operation performed last
    current_mileage,  \* argument of display_service_status when the last
                      \* operation was a check, 0 otherwise
    returned,         \* whether the last check_necessary_service returned a mapping
    service_required, \* the mapping it returned (insertion-ordered dict)
    queries,          \* GET_LAST_SERVICE_SQL executions started by the last check
    raised,           \* exception the store raised during the last operation
    shown,            \* what the last operation printed
    table,            \* rows of the printed table
    record_id         \* identifier returned by the last create_record

vars == <<logs, sqlite_sequence, pc, op, current_mileage, returned,
          service_required, queries, raised, shown, table, record_id>>

---------------------------------------------------------------------------
(* Bounds of the model *)

\* at most this many rows are inserted
MaxRecords == 2

\* the one positive odometer reading entered for a record besides -1 and 0
MileageStep == 50000

\* a store fault is injected at connect (0) or at one of the first
\* MaxFaultAt queries of a scan
MaxFaultAt == 2

---------------------------------------------------------------------------
(* Compiled-in tables *)

SERVICE_TYPE ==
    [k \in 0..1 |-> IF k = 0 THEN "planovoe TO" ELSE "vneplanovyi remont"]

PLANNED_WORK_WITH_PERIOD ==
    LET items == <<
            <<"Zamena masla v dvigatele", 15000>>,
            <<"Zamena maslyanogo filtra", 15000>>,
            <<"Zamena tormoznyh diskov", 100000>>,
            <<"Zamena toplivnogo filtra", 80000>>,
            <<"Zamena vozdushnogo filtra dlya dvigatelya", 40000>>,
            <<"Zamena vozdushnogo filtra dlya salona", 20000>>,
            <<"Zamena svechei zazhiganiya", 100000>>,
            <<"Zamena tormoznoi zhidkosti", 40000>>,
            <<"Zamena masla v razdatochnoi korobke", 100000>>,
            <<"Zamena masla v mehanizme zadnego differenciala", 100000>>,
            <<"Zamena ohlazhdayushchei zhidkosti dvigatelya", 80000>>,
            <<"Zamena masla v AKPP", 100000>> >>
    IN  [k \in 0..(Len(items) - 1) |-> items[k + 1]]

WorkIds == DOMAIN PLANNED_WORK_WITH_PERIOD

\* datetime.date.today(), as (year, month, day)
Today == <<2026, 11, 6>>

\* sqlite3 exceptions a failing store raises: OperationalError (cannot open,
\* locked, I/O error) and its sibling under DatabaseError (malformed image,
\* not a database), which "except sqlite3.OperationalError" does not catch
StoreErrors == {"OperationalError", "DatabaseError"}

---------------------------------------------------------------------------
(* Python dict, insertion-ordered: a sequence of [key, value] *)

Keys(d) == {d[i].key : i \in DOMAIN d}

DictSet(d, k, v) ==
    IF k \in Keys(d)
    THEN [i \in DOMAIN d |-> IF d[i].key = k THEN [key |-> k, value |-> v] ELSE d[i]]
    ELSE Append(d, [key |-> k, value |-> v])

---------------------------------------------------------------------------
(* The store *)

\* a variant without ORDER BY: the first matching row in rowid order
GET_LAST_SERVICE_SQL_unordered(rows, description) ==
    LET matching == SelectSeq(rows, LAMBDA r : r.description = description)
    IN  IF matching = <<>> THEN <<>> ELSE <<matching[1].mileage>>

\* a variant with ORDER BY mileage ASC
GET_LAST_SERVICE_SQL_asc(rows, description) ==
    LET matching == SelectSeq(rows, LAMBDA r : r.description = description)
        mileages == {matching[i].mileage : i \in DOMAIN matching}
    IN  IF matching = <<>>
        THEN <<>>
        ELSE <<CHOOSE x \in mileages : \A y \in mileages : x <= y>>

\* SELECT mileage FROM logs WHERE description = ? ORDER BY mileage DESC LIMIT 1
\* followed by fetchone(): <<>> is None, <<x>> the row (x,)
GET_LAST_SERVICE_SQL(rows, description) ==
    LET matching == SelectSeq(rows, LAMBDA r : r.description = description)
        mileages == {matching[i].mileage : i \in DOMAIN matching}
    IN  IF matching = <<>>
        THEN <<>>
        ELSE <<CHOOSE x \in mileages : \A y \in mileages : x >= y>>

\* int(period * 0.1): the double product of a multiple of ten below 2^53 and
\* 0.1 is the exact tenth, and int() truncates
Admission(period) == period \div 10

\* a variant with a strict comparison
NeedsService_strict(mileage, next_service, admission) ==
    mileage > next_service - admission

\* a variant that flags a work only within the band around its due point
NeedsService_band(mileage, next_service, admission) ==
    /\ mileage >= next_service - admission
    /\ mileage <= next_service + admission

\* line 124
NeedsService(mileage, next_service, admission) ==
    mileage >= next_service - admission

\* the loop of check_necessary_service over work ids work_id .. stop - 1
RECURSIVE ScanCatalog(_, _, _, _, _)
ScanCatalog(work_id, stop, mileage, rows, required) ==
    IF work_id >= stop
    THEN required
    ELSE LET work_desc    == PLANNED_WORK_WITH_PERIOD[work_id][1]
             period       == PLANNED_WORK_WITH_PERIOD[work_id][2]
             result       == GET_LAST_SERVICE_SQL(rows, work_desc)
             last_mileage == IF result # <<>> THEN result[1] ELSE 0
             next_service == last_mileage + period
             admission    == Admission(period)
         IN  ScanCatalog(work_id + 1, stop, mileage, rows,
                 IF NeedsService(mileage, next_service, admission)
                 THEN DictSet(required, work_desc, <<last_mileage, next_service>>)
                 ELSE required)

\* what check_necessary_service returns when the store does not fail
check_necessary_service(mileage, rows) ==
    ScanCatalog(0, Cardinality(WorkIds), mileage, rows, <<>>)

---------------------------------------------------------------------------
(* Rendering *)

RECURSIVE Groups(_)
Groups(n) == IF n < 1000 THEN <<n>> ELSE Append(Groups(n \div 1000), n % 1000)

\* f"{n:,}".replace(",", " "): sign and groups of three digits
FormatThousands(n) ==
    [negative |-> n < 0, groups |-> Groups(IF n < 0 THEN -n ELSE n)]

\* a variant with a strict comparison
Status_strict(mileage, next_service) ==
    IF mileage > next_service THEN "TREBUETSYA!" ELSE "Skoro potrebuetsya"

\* line 178
Status(mileage, next_service) ==
    IF mileage >= next_service THEN "TREBUETSYA!" ELSE "Skoro potrebuetsya"

\* lines 177-185
StatusRows(mileage, required) ==
    [i \in DOMAIN required |->
        [work_desc       |-> required[i].key,
         last_mileage    |-> FormatThousands(required[i].value[1]),
         next_service    |-> FormatThousands(required[i].value[2]),
         current_mileage |-> FormatThousands(mileage),
         status          |-> Status(mileage, required[i].value[2])]]

\* lines 215-234; date.fromisoformat(..).strftime("%d.%m.%Y"); of the two
\* service types only SERVICE_TYPE[0] contains the word the style is chosen by
HistoryRows(rows) ==
    [i \in DOMAIN rows |->
        [id          |-> rows[i].id,
         mileage     |-> FormatThousands(rows[i].mileage),
         date        |-> <<rows[i].date[3], rows[i].date[2], rows[i].date[1]>>,
         style       |-> IF rows[i].type = SERVICE_TYPE[0] THEN "success" ELSE "warning",
         type        |-> rows[i].type,
         description |-> rows[i].description]]

---------------------------------------------------------------------------
(* What the user types *)

\* IntPrompt.ask for a record's mileage accepts any integer
RecordMileages == {-1, 0, MileageStep}

\* planned works chosen in the model (the prompt offers every work id)
WorkChoices == {0, 2}

\* Prompt.ask accepts any text, the empty one and a catalog description too
FreeTexts == {"", "Zamena shin", PLANNED_WORK_WITH_PERIOD[0][1]}

\* odometer readings entered for a check: around each threshold and due
\* point of the chosen works, and the readings of the records
CheckMileages(rows) ==
    {-1, 0} \cup RecordMileages \cup
    UNION { LET period == PLANNED_WORK_WITH_PERIOD[k][2]
                result == GET_LAST_SERVICE_SQL(rows, PLANNED_WORK_WITH_PERIOD[k][1])
                next   == (IF result # <<>> THEN result[1] ELSE 0) + period
            IN  {next - Admission(period) - 1, next - Admission(period),
                 next - 1, next}
            : k \in WorkChoices }

\* where the store fails during one check: at 0 is sqlite3.connect (the file
\* cannot be opened), at k > 0 the k-th cursor.execute; exc "none" is no failure
Faults ==
    {[at |-> 0, exc |-> "OperationalError"]} \cup [at : 1..MaxFaultAt, exc : StoreErrors]

---------------------------------------------------------------------------
(* Operations *)

Init ==
    /\ logs = <<>>
    /\ sqlite_sequence = 0
    /\ pc = "menu"
    /\ op = "none"
    /\ current_mileage = 0
    /\ returned = FALSE
    /\ service_required = <<>>
    /\ queries = 0
    /\ raised = "none"
    /\ shown = "none"
    /\ table = <<>>
    /\ record_id = 0

\* a variant whose check also journals the first work it finds due
display_service_status_journal(mileage, fault) ==
    LET required == check_necessary_service(mileage, logs)
    IN  /\ pc = "menu"
        /\ fault.exc = "none"
        /\ op' = "check"
        /\ current_mileage' = mileage
        /\ raised' = "none"
        /\ returned' = TRUE
        /\ service_required' = required
        /\ queries' = Cardinality(WorkIds)
        /\ pc' = "menu"
        /\ UNCHANGED record_id
        /\ IF required = <<>>
           THEN /\ shown' = "panel_no_service" /\ table' = <<>>
                /\ UNCHANGED <<logs, sqlite_sequence>>
           ELSE /\ shown' = "table_service" /\ table' = StatusRows(mileage, required)
                /\ logs' = Append(logs,
                        [id          |-> sqlite_sequence + 1,
                         mileage     |-> mileage,
                         date        |-> Today,
                         type        |-> SERVICE_TYPE[0],
                         description |-> required[1].key])
                /\ sqlite_sequence' = sqlite_sequence + 1

\* menu choice 1: display_service_status(mileage), the store failing as fault says
display_service_status(mileage, fault) ==
    /\ pc = "menu"
    /\ op' = "check"
    /\ current_mileage' = mileage
    /\ raised' = fault.exc
    /\ UNCHANGED <<logs, sqlite_sequence, record_id>>
    /\ IF fault.exc = "none"
       THEN LET required == check_necessary_service(mileage, logs)
            IN  /\ returned' = TRUE
                /\ service_required' = required
                /\ queries' = Cardinality(WorkIds)
                /\ pc' = "menu"
                /\ IF required = <<>>
                   THEN shown' = "panel_no_service" /\ table' = <<>>
                   ELSE shown' = "table_service" /\ table' = StatusRows(mileage, required)
       ELSE /\ returned' = FALSE
            /\ service_required' = <<>>
            /\ queries' = fault.at
            /\ table' = <<>>
            /\ IF fault.exc = "OperationalError"
               THEN shown' = "error" /\ pc' = "menu"
               ELSE shown' = "none" /\ pc' = "crashed"

\* a variant that keeps one row per description (INSERT OR REPLACE on it)
create_record_upsert(record, exc) ==
    LET same == {i \in DOMAIN logs : logs[i].description = record.service_description}
    IN  /\ exc = "none"
        /\ op' = "create"
        /\ raised' = exc
        /\ current_mileage' = 0
        /\ returned' = FALSE
        /\ service_required' = <<>>
        /\ queries' = 0
        /\ table' = <<>>
        /\ shown' = "record_added"
        /\ pc' = "menu"
        /\ IF same = {}
           THEN /\ logs' = Append(logs,
                        [id          |-> sqlite_sequence + 1,
                         mileage     |-> record.mileage,
                         date        |-> record.service_date,
                         type        |-> record.type_,
                         description |-> record.service_description])
                /\ sqlite_sequence' = sqlite_sequence + 1
                /\ record_id' = sqlite_sequence + 1
           ELSE LET i == CHOOSE j \in same : TRUE
                IN  /\ logs' = [logs EXCEPT ![i].mileage = record.mileage,
                                            ![i].date = record.service_date,
                                            ![i].type = record.type_]
                    /\ UNCHANGED sqlite_sequence
                    /\ record_id' = logs[i].id

\* CarLogger.create_record with the INSERT succeeding (exc = "none") or failing;
\* main() does not catch: a failure leaves the program
create_record(record, exc) ==
    /\ op' = "create"
    /\ raised' = exc
    /\ current_mileage' = 0
    /\ returned' = FALSE
    /\ service_required' = <<>>
    /\ queries' = 0
    /\ table' = <<>>
    /\ IF exc = "none"
       THEN /\ logs' = Append(logs,
                    [id          |-> sqlite_sequence + 1,
                     mileage     |-> record.mileage,
                     date        |-> record.service_date,
                     type        |-> record.type_,
                     description |-> record.service_description])
            /\ sqlite_sequence' = sqlite_sequence + 1
            /\ record_id' = sqlite_sequence + 1
            /\ shown' = "record_added"
            /\ pc' = "menu"
       ELSE /\ UNCHANGED <<logs, sqlite_sequence, record_id>>
            /\ shown' = "none"
            /\ pc' = "crashed"

\* menu choice 2, lines 415-440: no check of what was typed
AddRecord(mileage, service_type, work_type, text, exc) ==
    /\ pc = "menu"
    /\ Len(logs) < MaxRecords
    /\ create_record(
           [mileage             |-> mileage,
            service_date        |-> Today,
            type_               |-> SERVICE_TYPE[service_type],
            service_description |-> IF service_type = 0
                                    THEN PLANNED_WORK_WITH_PERIOD[work_type][1]
                                    ELSE text],
           exc)

\* menu choice 3
show_service_history(exc) ==
    /\ pc = "menu"
    /\ op' = "history"
    /\ raised' = exc
    /\ current_mileage' = 0
    /\ returned' = FALSE
    /\ service_required' = <<>>
    /\ queries' = 0
    /\ UNCHANGED <<logs, sqlite_sequence, record_id>>
    /\ IF exc = "none"
       THEN /\ pc' = "menu"
            /\ IF logs = <<>>
               THEN shown' = "history_empty" /\ table' = <<>>
               ELSE shown' = "table_history" /\ table' = HistoryRows(logs)
       ELSE /\ pc' = "crashed"
            /\ shown' = "none"
            /\ table' = <<>>

NoFault == [at |-> 0, exc |-> "none"]

\* the program with a store that answers
Next ==
    \/ \E mileage \in CheckMileages(logs) :
           display_service_status(mileage, NoFault)
    \/ \E mileage \in RecordMileages, work_type \in WorkChoices :
           AddRecord(mileage, 0, work_type, "", "none")
    \/ \E mileage \in RecordMileages, text \in FreeTexts :
           AddRecord(mileage, 1, 0, text, "none")
    \/ show_service_history("none")

Spec == Init /\ [][Next]_vars

\* the program with a store that may fail during any operation
NextFault ==
    \/ Next
    \/ \E mileage \in CheckMileages(logs), fault \in Faults :
           display_service_status(mileage, fault)
    \/ \E mileage \in RecordMileages, work_type \in WorkChoices, exc \in StoreErrors :
           AddRecord(mileage, 0, work_type, "", exc)
    \/ \E exc \in StoreErrors :
           show_service_history(exc)

SpecFault == Init /\ [][NextFault]_vars

---------------------------------------------------------------------------
(* Properties *)

Front(s) == SubSeq(s, 1, Len(s) - 1)

Last(s) == s[Len(s)]

\* value of key k in an insertion-ordered dict
DictGet(d, k) == d[CHOOSE i \in DOMAIN d : d[i].key = k].value

WorkDesc(k) == PLANNED_WORK_WITH_PERIOD[k][1]

Period(k) == PLANNED_WORK_WITH_PERIOD[k][2]

\* mileages of the stored records with exactly this description
MileagesOf(rows, d) == {rows[i].mileage : i \in {j \in DOMAIN rows : rows[j].description = d}}

\* the highest of them, 0 when there is none
HighestOr0(rows, d) ==
    IF MileagesOf(rows, d) = {}
    THEN 0
    ELSE CHOOSE x \in MileagesOf(rows, d) : \A y \in MileagesOf(rows, d) : y <= x

\* C1: a check of mileage m returns exactly the mapping with, for each catalog
\* task (d, p), the entry d -> (L, L + p) iff m >= L + p - floor(p / 10), where
\* L is the highest mileage of the records with description d, or 0 when there
\* is none; no other key appears.
C1_CheckReturnsExactlyDueTasks ==
    (op = "check" /\ returned) =>
        LET m   == current_mileage
            due == {k \in WorkIds :
                       m >= HighestOr0(logs, WorkDesc(k)) + Period(k) - (Period(k) \div 10)}
        IN  /\ Keys(service_required) = {WorkDesc(k) : k \in due}
            /\ Len(service_required) = Cardinality(due)
            /\ \A k \in due :
                   DictGet(service_required, WorkDesc(k)) =
                       <<HighestOr0(logs, WorkDesc(k)),
                         HighestOr0(logs, WorkDesc(k)) + Period(k)>>

\* a check exactly at the threshold of a work that has a record, returning
\* works with and without a record and leaving some work out
C1_Witness ==
    /\ op = "check" /\ returned
    /\ Len(service_required) < Cardinality(WorkIds)
    /\ \E i, j \in DOMAIN service_required :
           /\ service_required[i].value[1] > 0
           /\ service_required[j].value[1] = 0
    /\ \E k \in WorkIds :
           /\ MileagesOf(logs, WorkDesc(k)) # {}
           /\ current_mileage = HighestOr0(logs, WorkDesc(k)) + Period(k) - (Period(k) \div 10)

\* C2 as stated: right after a record (d, x) is appended, the latest-service
\* query for d returns x.
C2_AppendThenFindReturnsAppended ==
    (op = "create" /\ pc = "menu") =>
        GET_LAST_SERVICE_SQL(logs, Last(logs).description) = <<Last(logs).mileage>>

\* C2 amended: right after a record (d, x) is appended, the latest-service
\* query for d returns the highest mileage among the records with description
\* d: x when no earlier record of d has a higher mileage, else the highest
\* earlier one.
C2_AppendThenFindReturnsHighest ==
    (op = "create" /\ pc = "menu") =>
        LET d       == Last(logs).description
            x       == Last(logs).mileage
            earlier == MileagesOf(Front(logs), d)
            result  == GET_LAST_SERVICE_SQL(logs, d)
        IN  /\ result # <<>>
            /\ Len(result) = 1
            /\ result[1] \in earlier \cup {x}
            /\ \A y \in earlier \cup {x} : result[1] >= y
            /\ (result[1] = x) <=> (\A y \in earlier : y <= x)

\* an append below an earlier record of the same description, and the query
\* answering the earlier mileage
C2_Witness ==
    /\ op = "create" /\ pc = "menu"
    /\ Len(logs) >= 2
    /\ \E y \in MileagesOf(Front(logs), Last(logs).description) :
           /\ y > Last(logs).mileage
           /\ GET_LAST_SERVICE_SQL(logs, Last(logs).description) = <<y>>

\* C3: when the store fails during a check, at connect or at any query, no
\* mapping is returned, no query is run again, and display_service_status
\* reports the failure and returns, showing neither the panel nor a table.
C3_StoreFailureReported ==
    (op = "check" /\ raised # "none") =>
        /\ ~returned
        /\ service_required = <<>>
        /\ queries <= Cardinality(WorkIds)
        /\ shown = "error"
        /\ pc = "menu"

\* C4: every stored record has a non-negative mileage and a non-empty
\* description.
C4_OnlyValidRecordsStored ==
    \A i \in DOMAIN logs :
        /\ logs[i].mileage >= 0
        /\ logs[i].description # ""

\* C5: for the log as it is, the works returned for a lower mileage are among
\* the works returned for a higher one.
C5_Monotone ==
    (op = "check" /\ returned) =>
        \A m1 \in CheckMileages(logs) :
            m1 <= current_mileage =>
                Keys(check_necessary_service(m1, logs)) \subseteq Keys(service_required)

\* a check over a log with records whose result strictly contains the
\* non-empty result of a lower mileage
C5_Witness ==
    /\ op = "check" /\ returned
    /\ logs # <<>>
    /\ \E m1 \in CheckMileages(logs) :
           /\ m1 < current_mileage
           /\ Keys(check_necessary_service(m1, logs)) # {}
           /\ Keys(check_necessary_service(m1, logs)) # Keys(service_required)

\* C6: a check leaves the log as it was, and a check that follows a check of
\* the same mileage returns the same mapping.
C6_CheckIdempotent ==
    [][ (op' = "check" /\ returned') =>
            /\ logs' = logs
            /\ sqlite_sequence' = sqlite_sequence
            /\ (op = "check" /\ returned /\ current_mileage' = current_mileage) =>
                   service_required' = service_required ]_vars

\* a check that returned works over a log with records
C6_Witness ==
    /\ op = "check" /\ returned
    /\ logs # <<>>
    /\ service_required # <<>>

\* C7: no step changes or removes a stored record; a create_record that
\* returns adds exactly one record, and the identifier it returns is that
\* record's and greater than every identifier assigned before; the other
\* operations leave the log as it was.
C7_AppendOnly ==
    [][ /\ Len(logs') >= Len(logs)
        /\ SubSeq(logs', 1, Len(logs)) = logs
        /\ (op' = "create" /\ pc' = "menu") =>
               /\ Len(logs') = Len(logs) + 1
               /\ Last(logs').id = record_id'
               /\ record_id' > record_id
               /\ \A i \in DOMAIN logs : record_id' > logs[i].id
        /\ (op' # "create") => (logs' = logs /\ record_id' = record_id) ]_vars

\* a second record appended after the first
C7_Witness ==
    /\ op = "create" /\ pc = "menu"
    /\ Len(logs) >= 2
    /\ record_id = Last(logs).id
    /\ record_id > logs[1].id

\* C8: every row of the service table is "due now" exactly when
\* m >= next_due and "upcoming" exactly when next_due - tolerance <= m < next_due,
\* tolerance being floor(interval / 10); each row is one of the two.
C8_StatusMatchesBand ==
    (shown = "table_service") =>
        /\ Len(table) = Len(service_required)
        /\ \A i \in DOMAIN table :
               LET k         == CHOOSE w \in WorkIds : WorkDesc(w) = service_required[i].key
                   next_due  == service_required[i].value[2]
                   tolerance == Period(k) \div 10
                   m         == current_mileage
                   due_now   == table[i].status = "TREBUETSYA!"
                   upcoming  == table[i].status = "Skoro potrebuetsya"
               IN  /\ table[i].work_desc = service_required[i].key
                   /\ due_now <=> (m >= next_due)
                   /\ upcoming <=> (next_due - tolerance <= m /\ m < next_due)
                   /\ due_now # upcoming

\* a table with a row exactly at its due point and an upcoming row
C8_Witness ==
    /\ shown = "table_service"
    /\ \E i, j \in DOMAIN table :
           /\ table[i].status = "TREBUETSYA!"
           /\ service_required[i].value[2] = current_mileage
           /\ table[j].status = "Skoro potrebuetsya"

\* C9: appending an unscheduled repair, whatever text was typed, leaves the
\* result of a check unchanged for every mileage.
C9_RepairNeverMatchesCatalog ==
    (op = "create" /\ pc = "menu" /\ Last(logs).type = SERVICE_TYPE[1]) =>
        \A m \in CheckMileages(logs) \cup CheckMileages(Front(logs)) :
            check_necessary_service(m, logs) = check_necessary_service(m, Front(logs))

\* C10: once a record of catalog task t at mileage x is stored, in every
\* later state the last-service mileage used for t is at least x and no check
\* of a mileage m <= x returns t.
C10_ServiceClearsDue ==
    \A i \in DOMAIN logs, k \in WorkIds :
        (logs[i].description = WorkDesc(k)) =>
            LET x == logs[i].mileage
            IN  /\ GET_LAST_SERVICE_SQL(logs, WorkDesc(k)) # <<>>
                /\ GET_LAST_SERVICE_SQL(logs, WorkDesc(k))[1] >= x
                /\ \A m \in {mm \in CheckMileages(logs) \cup {x} : mm <= x} :
                       WorkDesc(k) \notin Keys(check_necessary_service(m, logs))
                /\ (op = "check" /\ returned /\ current_mileage <= x) =>
                       WorkDesc(k) \notin Keys(service_required)

\* a check at the mileage of a task's record, after a later record of the same
\* task at a lower mileage: the task is left out while another of the same
\* interval is returned
C10_Witness ==
    /\ op = "check" /\ returned
    /\ \E i, j \in DOMAIN logs :
           /\ i < j
           /\ logs[i].description = WorkDesc(0)
           /\ logs[j].description = WorkDesc(0)
           /\ logs[j].mileage < logs[i].mileage
           /\ current_mileage = logs[i].mileage
    /\ WorkDesc(0) \notin Keys(service_required)
    /\ WorkDesc(1) \in Keys(service_required)

====
